---- MODULE Spec2Model ----
(***************************************************************************)
(* Model of the escape-room booking service (src/booking_service.py).      *)
(* Time is a discrete clock `now`; every instant of the program (window    *)
(* bounds, created_at, the expiry threshold) is a clock value.  A booking  *)
(* id is the position of its row in `bookings`, a user id the position of  *)
(* its row in `users`.  A service method is an operator from the state it  *)
(* is called in to what it returns and the tables it leaves behind; an     *)
(* action is one call of a method.                                         *)
(***************************************************************************)
EXTENDS Integers, Sequences, FiniteSets, TLC

\* ---------------------------------------------------------------- bounds
\* The clock stops advancing at MaxTime.
MaxTime == 3
\* At most MaxBookings rows are ever inserted into the booking table.
MaxBookings == 2
\* BOOKING_HOLD_MINUTES, in clock ticks (read from the environment, fixed
\* during a run).
HoldDuration == 2

VARIABLES
    now,        \* datetime.now(timezone.utc)
    bookings,   \* the booking table: sequence of rows, id = position
    users,      \* the user table: sequence of rows, id = position
    procs       \* the requests in flight (used by the concurrent specification)

vars == <<now, bookings, users, procs>>

\* ---------------------------------------------------------------- data
\* Python's None, where an instant is expected.
None == 0 - 1

\* The seeded room catalogue.
Rooms == {1, 2}

\* A date argument: None, a string that is not ISO-8601, or an ISO-8601
\* string denoting instant t.
NoneDate == [kind |-> "none", t |-> 0]
BadDate == [kind |-> "bad", t |-> 0]
IsoDate(t) == [kind |-> "iso", t |-> t]

OkConfirmed == "Booking confirmed successfully."
OkCancelled == "Booking cancelled successfully."
OkCreated == "Booking created successfully."
OkUpdated == "Booking updated successfully."
OkReleased == "Booking released successfully."
ErrConfirm == "Booking not found or not pending."
ErrNotFound == "Booking not found."
ErrPastEnd == "Cannot cancel a booking after its end_date has passed."
ErrDatesRequired == "start_date and end_date are required."
ErrDateFormat == "Invalid date format. Use ISO8601 (YYYY-MM-DDTHH:MM:SSZ)"
ErrStartBeforeEnd == "start_date must be before end_date."
ErrFuture == "start_date and end_date must be in the future."
ErrArgsRequired == "room_id, user_name, user_email, start_date, and end_date are required."
ErrNoRoom == "Room does not exist."
ErrUnavailable == "Room is not available for the selected time range."

BookingIds == 1..Len(bookings)

\* Booking.created_at column default: the instant the row is inserted.
DefaultCreatedAt == now

\* ---------------------------------------------------------------- helpers
_get_expired_threshold == now - HoldDuration

_parse_datetime(dt) ==
    IF dt.kind = "bad" THEN None ELSE dt.t

\* First user row with the given email, 0 when there is none.
FindUser(email) ==
    IF \E i \in 1..Len(users) : users[i].email = email
    THEN CHOOSE i \in 1..Len(users) :
            /\ users[i].email = email
            /\ \A j \in 1..(i - 1) : users[j].email # email
    ELSE 0

\* Mutant of UsersAfterRetrieve: the lookup by email is missing.
UsersAfterRetrieveAlwaysAdd(username, email) ==
    Append(users, [username |-> username, email |-> email])

\* The user table after retrieve_user(username, email).
UsersAfterRetrieve(username, email) ==
    IF FindUser(email) # 0 THEN users
    ELSE Append(users, [username |-> username, email |-> email])

\* The id retrieve_user(username, email) returns.
retrieve_user(username, email) ==
    IF FindUser(email) # 0 THEN FindUser(email) ELSE Len(users) + 1

determine_booking_status(booking) ==
    IF booking.status = "pending" /\ booking.created_at # None
       /\ booking.created_at < _get_expired_threshold
    THEN "expired"
    ELSE booking.status

\* What retrieve_booking returns: the dictionary of a stored booking, with
\* the status determine_booking_status computes, or the dictionary whose id
\* is None when the query finds no row (the method then returns None).
retrieve_booking(booking_id) ==
    IF booking_id \notin BookingIds
    THEN [id |-> None]
    ELSE [id |-> booking_id,
          room_id |-> bookings[booking_id].room_id,
          user_id |-> bookings[booking_id].user_id,
          start_date |-> bookings[booking_id].start_date,
          end_date |-> bookings[booking_id].end_date,
          status |-> determine_booking_status(bookings[booking_id]),
          user_name |-> users[bookings[booking_id].user_id].username,
          user_email |-> users[bookings[booking_id].user_id].email]

\* Mutant of IsBlocking: pending holds never lapse.
IsBlockingNoExpiry(booking) ==
    booking.status \in {"confirmed", "pending"}

\* Mutant of IsBlocking: pending holds never block.
IsBlockingConfirmedOnly(booking) ==
    booking.status = "confirmed"

\* The status clause of the availability query.
IsBlocking(booking) ==
    \/ booking.status = "confirmed"
    \/ (booking.status = "pending" /\ booking.created_at > _get_expired_threshold)

\* Mutant of Overlaps: the bounds are inclusive.
OverlapsClosed(booking, start_date, end_date) ==
    booking.start_date <= end_date /\ booking.end_date >= start_date

\* The window clause of the availability query.
Overlaps(booking, start_date, end_date) ==
    booking.start_date < end_date /\ booking.end_date > start_date

\* Mutant of _check_room_available: the room filter is missing.
_check_room_available_any_room(room_id, start_date, end_date) ==
    ~ \E i \in BookingIds :
        /\ Overlaps(bookings[i], start_date, end_date)
        /\ IsBlocking(bookings[i])

_check_room_available(room_id, start_date, end_date) ==
    ~ \E i \in BookingIds :
        /\ bookings[i].room_id = room_id
        /\ Overlaps(bookings[i], start_date, end_date)
        /\ IsBlocking(bookings[i])

\* The raw SQL of get_available_rooms_by_date_range compares texts.  A text
\* is the whole-second prefix 'YYYY-MM-DD HH:MM:SS' of instant t followed by
\* a tail; texts compare as SQLite compares strings, character by character,
\* so equal prefixes are ordered by their tails: '' < '+00:00' < '.000000'.
TailRank(tail) ==
    CASE tail = "" -> 0
      [] tail = "+00:00" -> 1
      [] tail = ".000000" -> 2

TextLess(a, b) ==
    \/ a.t < b.t
    \/ (a.t = b.t /\ TailRank(a.tail) < TailRank(b.tail))

\* A DateTime column as stored: 'YYYY-MM-DD HH:MM:SS.ffffff'.
ColumnText(t) == [t |-> t, tail |-> ".000000"]

\* A timezone-aware datetime bound to a parameter of text():
\* 'YYYY-MM-DD HH:MM:SS+00:00'.
ParamText(t) == [t |-> t, tail |-> "+00:00"]

\* DATETIME('now', '-N minutes'): 'YYYY-MM-DD HH:MM:SS'.
SqliteDatetimeNow(minutes) == [t |-> now - minutes, tail |-> ""]

\* The ids of the rooms get_available_rooms_by_date_range returns.
get_available_rooms_by_date_range(start_date, end_date) ==
    {r \in Rooms :
        ~ \E i \in BookingIds :
            /\ bookings[i].room_id = r
            /\ TextLess(ColumnText(bookings[i].start_date), ParamText(end_date))
            /\ TextLess(ParamText(start_date), ColumnText(bookings[i].end_date))
            /\ \/ bookings[i].status = "confirmed"
               \/ /\ bookings[i].status = "pending"
                  /\ TextLess(SqliteDatetimeNow(HoldDuration),
                              ColumnText(bookings[i].created_at))}

\* Mutant of _validate_booking_dates: the start_date >= end_date check is
\* missing.
_validate_booking_dates_no_order(start_date, end_date) ==
    LET s == _parse_datetime(start_date)
        e == _parse_datetime(end_date)
        Err(msg) == [error |-> msg, start_date |-> None, end_date |-> None]
    IN  IF start_date.kind = "none" \/ end_date.kind = "none" THEN Err(ErrDatesRequired)
        ELSE IF s = None \/ e = None THEN Err(ErrDateFormat)
        ELSE IF s < now \/ e < now THEN Err(ErrFuture)
        ELSE [error |-> "", start_date |-> s, end_date |-> e]

_validate_booking_dates(start_date, end_date) ==
    LET s == _parse_datetime(start_date)
        e == _parse_datetime(end_date)
        Err(msg) == [error |-> msg, start_date |-> None, end_date |-> None]
    IN  IF start_date.kind = "none" \/ end_date.kind = "none" THEN Err(ErrDatesRequired)
        ELSE IF s = None \/ e = None THEN Err(ErrDateFormat)
        ELSE IF s >= e THEN Err(ErrStartBeforeEnd)
        ELSE IF s < now \/ e < now THEN Err(ErrFuture)
        ELSE [error |-> "", start_date |-> s, end_date |-> e]

\* The dictionaries the service returns: {'success': msg} and {'error': msg}.
ReturnSuccess(msg) == [key |-> "success", msg |-> msg]
ReturnError(msg) == [key |-> "error", msg |-> msg]

\* The outcome of a call: the returned dictionary and the committed tables.
Outcome(r, b, u) == [ret |-> r, bookings |-> b, users |-> u]

\* ---------------------------------------------------------------- operations
\* Mutant of confirm_booking: the created_at filter is missing.
confirm_booking_no_expiry(booking_id) ==
    LET found == /\ booking_id \in BookingIds
                 /\ bookings[booking_id].status = "pending"
    IN  IF ~ found
        THEN Outcome(ReturnError(ErrConfirm), bookings, users)
        ELSE Outcome(ReturnSuccess(OkConfirmed),
                     [bookings EXCEPT ![booking_id].status = "confirmed"], users)

confirm_booking(booking_id) ==
    LET found == /\ booking_id \in BookingIds
                 /\ bookings[booking_id].status = "pending"
                 /\ bookings[booking_id].created_at > _get_expired_threshold
    IN  IF ~ found
        THEN Outcome(ReturnError(ErrConfirm), bookings, users)
        ELSE Outcome(ReturnSuccess(OkConfirmed),
                     [bookings EXCEPT ![booking_id].status = "confirmed"], users)

\* Mutant of cancel_booking: the end_date check is missing.
cancel_booking_no_end_check(booking_id) ==
    IF booking_id \notin BookingIds
    THEN Outcome(ReturnError(ErrNotFound), bookings, users)
    ELSE Outcome(ReturnSuccess(OkCancelled),
                 [bookings EXCEPT ![booking_id].status = "cancelled"], users)

cancel_booking(booking_id) ==
    IF booking_id \notin BookingIds
    THEN Outcome(ReturnError(ErrNotFound), bookings, users)
    ELSE IF bookings[booking_id].end_date < now
    THEN Outcome(ReturnError(ErrPastEnd), bookings, users)
    ELSE Outcome(ReturnSuccess(OkCancelled),
                 [bookings EXCEPT ![booking_id].status = "cancelled"], users)

\* Mutant of release_booking: the status filter is missing.
release_booking_any_status(booking_id) ==
    LET found == booking_id \in BookingIds
    IN  IF ~ found
        THEN Outcome(ReturnError(ErrConfirm), bookings, users)
        ELSE Outcome(ReturnSuccess(OkReleased),
                     [bookings EXCEPT ![booking_id].status = "released"], users)

\* Mutant of release_booking: the created_at filter of confirm_booking is
\* applied here too.
release_booking_live_only(booking_id) ==
    LET found == /\ booking_id \in BookingIds
                 /\ bookings[booking_id].status = "pending"
                 /\ bookings[booking_id].created_at > _get_expired_threshold
    IN  IF ~ found
        THEN Outcome(ReturnError(ErrConfirm), bookings, users)
        ELSE Outcome(ReturnSuccess(OkReleased),
                     [bookings EXCEPT ![booking_id].status = "released"], users)

release_booking(booking_id) ==
    LET found == /\ booking_id \in BookingIds
                 /\ bookings[booking_id].status = "pending"
    IN  IF ~ found
        THEN Outcome(ReturnError(ErrConfirm), bookings, users)
        ELSE Outcome(ReturnSuccess(OkReleased),
                     [bookings EXCEPT ![booking_id].status = "released"], users)

\* The row create_booking inserts.
NewBooking(room_id, user_id, start_date, end_date, status) ==
    [room_id |-> room_id, user_id |-> user_id, start_date |-> start_date,
     end_date |-> end_date, status |-> status, created_at |-> DefaultCreatedAt]

\* Mutant of create_booking: the availability check is missing.
create_booking_unchecked(room_id, user_name, user_email, start_date, end_date, status) ==
    LET validation == _validate_booking_dates(start_date, end_date)
        user_id == retrieve_user(user_name, user_email)
        users_after == UsersAfterRetrieve(user_name, user_email)
    IN  IF room_id = 0 \/ user_name = "" \/ user_email = ""
           \/ start_date.kind = "none" \/ end_date.kind = "none"
        THEN Outcome(ReturnError(ErrArgsRequired), bookings, users)
        ELSE IF validation.error # ""
        THEN Outcome(ReturnError(validation.error), bookings, users)
        ELSE IF room_id \notin Rooms
        THEN Outcome(ReturnError(ErrNoRoom), bookings, users)
        ELSE Outcome(ReturnSuccess(OkCreated),
                     Append(bookings,
                            NewBooking(room_id, user_id, validation.start_date,
                                       validation.end_date, status)),
                     users_after)

\* Mutant of create_booking: the user is resolved after the availability
\* check instead of before it.
create_booking_user_last(room_id, user_name, user_email, start_date, end_date, status) ==
    LET validation == _validate_booking_dates(start_date, end_date)
        user_id == retrieve_user(user_name, user_email)
        users_after == UsersAfterRetrieve(user_name, user_email)
    IN  IF room_id = 0 \/ user_name = "" \/ user_email = ""
           \/ start_date.kind = "none" \/ end_date.kind = "none"
        THEN Outcome(ReturnError(ErrArgsRequired), bookings, users)
        ELSE IF validation.error # ""
        THEN Outcome(ReturnError(validation.error), bookings, users)
        ELSE IF room_id \notin Rooms
        THEN Outcome(ReturnError(ErrNoRoom), bookings, users)
        ELSE IF ~ _check_room_available(room_id, validation.start_date, validation.end_date)
        THEN Outcome(ReturnError(ErrUnavailable), bookings, users)
        ELSE Outcome(ReturnSuccess(OkCreated),
                     Append(bookings,
                            NewBooking(room_id, user_id, validation.start_date,
                                       validation.end_date, status)),
                     users_after)

create_booking(room_id, user_name, user_email, start_date, end_date, status) ==
    LET validation == _validate_booking_dates(start_date, end_date)
        user_id == retrieve_user(user_name, user_email)
        users_after == UsersAfterRetrieve(user_name, user_email)
    IN  IF room_id = 0 \/ user_name = "" \/ user_email = ""
           \/ start_date.kind = "none" \/ end_date.kind = "none"
        THEN Outcome(ReturnError(ErrArgsRequired), bookings, users)
        ELSE IF validation.error # ""
        THEN Outcome(ReturnError(validation.error), bookings, users)
        ELSE IF room_id \notin Rooms
        THEN Outcome(ReturnError(ErrNoRoom), bookings, users)
        ELSE IF ~ _check_room_available(room_id, validation.start_date, validation.end_date)
        THEN Outcome(ReturnError(ErrUnavailable), bookings, users_after)
        ELSE Outcome(ReturnSuccess(OkCreated),
                     Append(bookings,
                            NewBooking(room_id, user_id, validation.start_date,
                                       validation.end_date, status)),
                     users_after)

\* Mutant of update_booking: the availability re-check leaves out the
\* booking being updated.
update_booking_excluding_self(booking_id, start_date, end_date, status) ==
    LET validation == _validate_booking_dates(start_date, end_date)
        others_block ==
            \E i \in BookingIds \ {booking_id} :
                /\ bookings[i].room_id = bookings[booking_id].room_id
                /\ Overlaps(bookings[i], validation.start_date, validation.end_date)
                /\ IsBlocking(bookings[i])
    IN  IF booking_id \notin BookingIds
        THEN Outcome(ReturnError(ErrNotFound), bookings, users)
        ELSE IF validation.error # ""
        THEN Outcome(ReturnError(validation.error), bookings, users)
        ELSE IF status \in {"confirmed", "pending"} /\ others_block
        THEN Outcome(ReturnError(ErrUnavailable), bookings, users)
        ELSE Outcome(ReturnSuccess(OkUpdated),
                     [bookings EXCEPT ![booking_id].start_date = validation.start_date,
                                      ![booking_id].end_date = validation.end_date,
                                      ![booking_id].status = status],
                     users)

\* Mutant of update_booking: the new window is assigned and committed before
\* the availability check.
update_booking_write_first(booking_id, start_date, end_date, status) ==
    LET validation == _validate_booking_dates(start_date, end_date)
    IN  IF booking_id \notin BookingIds
        THEN Outcome(ReturnError(ErrNotFound), bookings, users)
        ELSE IF validation.error # ""
        THEN Outcome(ReturnError(validation.error), bookings, users)
        ELSE IF /\ status \in {"confirmed", "pending"}
                /\ ~ _check_room_available(bookings[booking_id].room_id,
                                           validation.start_date, validation.end_date)
        THEN Outcome(ReturnError(ErrUnavailable),
                     [bookings EXCEPT ![booking_id].start_date = validation.start_date,
                                      ![booking_id].end_date = validation.end_date],
                     users)
        ELSE Outcome(ReturnSuccess(OkUpdated),
                     [bookings EXCEPT ![booking_id].start_date = validation.start_date,
                                      ![booking_id].end_date = validation.end_date,
                                      ![booking_id].status = status],
                     users)

update_booking(booking_id, start_date, end_date, status) ==
    LET validation == _validate_booking_dates(start_date, end_date)
    IN  IF booking_id \notin BookingIds
        THEN Outcome(ReturnError(ErrNotFound), bookings, users)
        ELSE IF validation.error # ""
        THEN Outcome(ReturnError(validation.error), bookings, users)
        ELSE IF /\ status \in {"confirmed", "pending"}
                /\ ~ _check_room_available(bookings[booking_id].room_id,
                                           validation.start_date, validation.end_date)
        THEN Outcome(ReturnError(ErrUnavailable), bookings, users)
        ELSE Outcome(ReturnSuccess(OkUpdated),
                     [bookings EXCEPT ![booking_id].start_date = validation.start_date,
                                      ![booking_id].end_date = validation.end_date,
                                      ![booking_id].status = status],
                     users)

\* ---------------------------------------------------------------- inputs
\* Requested windows: an early one that ends while the clock still runs, two
\* overlapping ones that can still be requested when the clock has stopped
\* (the second back-to-back with the early one when MaxTime is 3), and one
\* whose start is not before its end.
WindowArgs ==
    {<<1, 2>>, <<MaxTime - 1, MaxTime + 1>>, <<MaxTime, MaxTime + 1>>, <<2, 2>>}

\* Room 3 is not in the catalogue.
RoomIdArgs == Rooms \cup {3}

IdArgs == 1..(MaxBookings + 1)

\* The status argument of update_booking.
StatusArgs == {"pending", "confirmed", "cancelled", "released"}

\* ---------------------------------------------------------------- sequential specification
\* Every call runs from start to end before the next one starts.
Init ==
    /\ now = 0
    /\ bookings = <<>>
    /\ users = <<>>
    /\ procs = <<>>

\* The tables after a call with the given outcome.
Commit(outcome) ==
    /\ bookings' = outcome.bookings
    /\ users' = outcome.users
    /\ UNCHANGED <<now, procs>>

\* create_booking is called as the API layer calls it: status is left to its
\* default.
Create ==
    /\ Len(bookings) < MaxBookings
    /\ \E room_id \in RoomIdArgs, w \in WindowArgs :
          Commit(create_booking(room_id, "ann", "ann@x", IsoDate(w[1]), IsoDate(w[2]),
                                "pending"))

Update ==
    \E booking_id \in IdArgs, w \in WindowArgs, status \in StatusArgs :
        Commit(update_booking(booking_id, IsoDate(w[1]), IsoDate(w[2]), status))

Confirm == \E booking_id \in IdArgs : Commit(confirm_booking(booking_id))

Cancel == \E booking_id \in IdArgs : Commit(cancel_booking(booking_id))

Release == \E booking_id \in IdArgs : Commit(release_booking(booking_id))

\* The clock advances.
Tick ==
    /\ now < MaxTime
    /\ now' = now + 1
    /\ UNCHANGED <<bookings, users, procs>>

Next == Create \/ Update \/ Confirm \/ Cancel \/ Release \/ Tick

Spec == Init /\ [][Next]_vars

\* The sequential specification of the calls the API layer makes: app.py has
\* a route for every operation but update_booking.
NextApi == Create \/ Confirm \/ Cancel \/ Release \/ Tick

SpecApi == Init /\ [][NextApi]_vars

\* The sequential specification with the status argument of update_booking
\* drawn from every label: the four stored statuses and the computed one.
StatusLabels == StatusArgs \cup {"expired"}

UpdateAnyLabel ==
    \E booking_id \in IdArgs, w \in WindowArgs, status \in StatusLabels :
        Commit(update_booking(booking_id, IsoDate(w[1]), IsoDate(w[2]), status))

NextLabels == Create \/ UpdateAnyLabel \/ Confirm \/ Cancel \/ Release \/ Tick

SpecLabels == Init /\ [][NextLabels]_vars

\* Abandoned holds: holds are taken and then released or left alone, no
\* reservation is ever confirmed or updated, and the clock keeps advancing.
NextAbandon == Create \/ Release \/ Tick

SpecAbandon == Init /\ [][NextAbandon]_vars /\ WF_vars(Tick)

\* Guests: create_booking and retrieve_user are called for two emails, one of
\* them under two names.
GuestArgs == {<<"ann", "ann@x">>, <<"anna", "ann@x">>, <<"bob", "bob@x">>}

CreateGuest ==
    /\ Len(bookings) < MaxBookings
    /\ \E room_id \in Rooms, w \in WindowArgs, guest \in GuestArgs :
          Commit(create_booking(room_id, guest[1], guest[2], IsoDate(w[1]), IsoDate(w[2]),
                                "pending"))

\* A call of retrieve_user.
RetrieveUser ==
    \E guest \in GuestArgs :
        /\ users' = UsersAfterRetrieve(guest[1], guest[2])
        /\ UNCHANGED <<now, bookings, procs>>

NextGuests == CreateGuest \/ RetrieveUser \/ Tick

SpecGuests == Init /\ [][NextGuests]_vars

\* ---------------------------------------------------------------- reads among the writes
\* The two read operations as calls: what they return, and the tables they
\* leave (neither adds, assigns or commits anything).
retrieve_booking_call(booking_id) ==
    Outcome(retrieve_booking(booking_id), bookings, users)

get_available_rooms_call(start_date, end_date) ==
    Outcome(get_available_rooms_by_date_range(start_date, end_date), bookings, users)

RetrieveBooking == \E booking_id \in IdArgs : Commit(retrieve_booking_call(booking_id))

Availability == \E w \in WindowArgs : Commit(get_available_rooms_call(w[1], w[2]))

\* create_booking for one room of the catalogue and for the room outside it.
CreateFrame ==
    /\ Len(bookings) < MaxBookings
    /\ \E room_id \in {1, 3}, w \in WindowArgs :
          Commit(create_booking(room_id, "ann", "ann@x", IsoDate(w[1]), IsoDate(w[2]),
                                "pending"))

\* update_booking with a status that takes the availability check and one
\* that does not.
FrameStatusArgs == {"pending", "cancelled"}

UpdateFrame ==
    \E booking_id \in IdArgs, w \in WindowArgs, status \in FrameStatusArgs :
        Commit(update_booking(booking_id, IsoDate(w[1]), IsoDate(w[2]), status))

NextFrame ==
    \/ CreateFrame \/ UpdateFrame \/ Confirm \/ Cancel \/ Release
    \/ RetrieveBooking \/ Availability \/ Tick

SpecFrame == Init /\ [][NextFrame]_vars

\* ---------------------------------------------------------------- concurrent specification
\* Two requests, each one call of create_booking.  A request runs in two
\* steps, between which the other request and the clock may move: the checks
\* up to and including the availability query, then the insert and commit.
Procs == {1, 2}

Idle ==
    [pc |-> "idle", room_id |-> 0, user_id |-> 0, start_date |-> None,
     end_date |-> None, status |-> "", booking_id |-> 0, ret |-> ReturnSuccess("")]

\* create_booking up to its availability check: what it returns when it
\* returns there, and the user table it leaves.
create_booking_check(p, room_id, user_name, user_email, start_date, end_date, status) ==
    LET validation == _validate_booking_dates(start_date, end_date)
        Return(msg) == procs' = [procs EXCEPT ![p].pc = "done", ![p].ret = ReturnError(msg)]
    IN  /\ procs[p].pc = "idle"
        /\ UNCHANGED <<now, bookings>>
        /\ IF room_id = 0 \/ user_name = "" \/ user_email = ""
              \/ start_date.kind = "none" \/ end_date.kind = "none"
           THEN Return(ErrArgsRequired) /\ UNCHANGED users
           ELSE IF validation.error # ""
           THEN Return(validation.error) /\ UNCHANGED users
           ELSE IF room_id \notin Rooms
           THEN Return(ErrNoRoom) /\ UNCHANGED users
           ELSE /\ users' = UsersAfterRetrieve(user_name, user_email)
                /\ IF ~ _check_room_available(room_id, validation.start_date,
                                              validation.end_date)
                   THEN Return(ErrUnavailable)
                   ELSE procs' = [procs EXCEPT ![p] =
                            [pc |-> "insert", room_id |-> room_id,
                             user_id |-> retrieve_user(user_name, user_email),
                             start_date |-> validation.start_date,
                             end_date |-> validation.end_date,
                             status |-> status, booking_id |-> 0,
                             ret |-> ReturnSuccess("")]]

\* create_booking from the insert on.
create_booking_insert(p) ==
    /\ procs[p].pc = "insert"
    /\ bookings' = Append(bookings,
            NewBooking(procs[p].room_id, procs[p].user_id, procs[p].start_date,
                       procs[p].end_date, procs[p].status))
    /\ procs' = [procs EXCEPT ![p].pc = "done",
                              ![p].booking_id = Len(bookings) + 1,
                              ![p].ret = ReturnSuccess(OkCreated)]
    /\ UNCHANGED <<now, users>>

InitConc ==
    /\ now = 0
    /\ bookings = <<>>
    /\ users = <<>>
    /\ procs = [p \in Procs |-> Idle]

CreateCheck ==
    \E p \in Procs, room_id \in RoomIdArgs, w \in WindowArgs,
       guest \in {<<"ann", "ann@x">>, <<"bob", "bob@x">>} :
        create_booking_check(p, room_id, guest[1], guest[2],
                             IsoDate(w[1]), IsoDate(w[2]), "pending")

CreateInsert == \E p \in Procs : create_booking_insert(p)

NextConc == CreateCheck \/ CreateInsert \/ Tick

SpecConc == InitConc /\ [][NextConc]_vars

\* ---------------------------------------------------------------- confirm in flight
\* A request that is one call of confirm_booking runs in two steps, between
\* which the clock and whole create_booking calls may move: the threshold and
\* the query for the pending, unexpired row, then the write of 'confirmed'
\* and the commit, which re-checks nothing.
confirm_booking_check(p, booking_id) ==
    LET found == /\ booking_id \in BookingIds
                 /\ bookings[booking_id].status = "pending"
                 /\ bookings[booking_id].created_at > _get_expired_threshold
    IN  /\ procs[p].pc = "idle"
        /\ UNCHANGED <<now, bookings, users>>
        /\ IF ~ found
           THEN procs' = [procs EXCEPT ![p].pc = "done",
                                       ![p].booking_id = booking_id,
                                       ![p].ret = ReturnError(ErrConfirm)]
           ELSE procs' = [procs EXCEPT ![p].pc = "write",
                                       ![p].booking_id = booking_id]

confirm_booking_write(p) ==
    /\ procs[p].pc = "write"
    /\ bookings' = [bookings EXCEPT ![procs[p].booking_id].status = "confirmed"]
    /\ procs' = [procs EXCEPT ![p].pc = "done", ![p].ret = ReturnSuccess(OkConfirmed)]
    /\ UNCHANGED <<now, users>>

ConfirmCheck == \E p \in Procs, booking_id \in IdArgs : confirm_booking_check(p, booking_id)

ConfirmWrite == \E p \in Procs : confirm_booking_write(p)

NextConfirmRace == Create \/ ConfirmCheck \/ ConfirmWrite \/ Tick

SpecConfirmRace == InitConc /\ [][NextConfirmRace]_vars

\* ---------------------------------------------------------------- claims
\* The claims' own reading of "blocking" and "overlap", stated on rows and
\* instants rather than through the availability query.
Live(b) == b.status = "pending" /\ b.created_at > now - HoldDuration

Blocks(b) == b.status = "confirmed" \/ Live(b)

WindowsOverlap(a, b) == a.start_date < b.end_date /\ b.start_date < a.end_date

Terminal == {"cancelled", "released"}

\* C1: no double-booking under atomic calls: any two distinct reservations
\* of the same room that both block (confirmed, or pending and created after
\* now - hold_duration) have non-overlapping windows.
NoDoubleBooking ==
    \A i \in BookingIds, j \in BookingIds :
        (i # j /\ bookings[i].room_id = bookings[j].room_id
              /\ Blocks(bookings[i]) /\ Blocks(bookings[j]))
        => ~ WindowsOverlap(bookings[i], bookings[j])

\* Two reservations of one room with overlapping windows are stored: a
\* pending one whose hold has lapsed, and a blocking one.
NoDoubleBookingWitness ==
    /\ Len(bookings) = 2
    /\ bookings[1].room_id = bookings[2].room_id
    /\ WindowsOverlap(bookings[1], bookings[2])
    /\ bookings[1].status = "pending" /\ ~ Blocks(bookings[1])
    /\ Blocks(bookings[2])

\* C2: no double-booking under concurrent calls: two create_booking requests
\* for the same room and overlapping windows never both return success with
\* both inserted reservations blocking.
ConcurrentCreatesExclusive ==
    \A p \in Procs, q \in Procs :
        (/\ p # q
         /\ procs[p].pc = "done" /\ procs[p].ret.key = "success"
         /\ procs[q].pc = "done" /\ procs[q].ret.key = "success"
         /\ procs[p].room_id = procs[q].room_id
         /\ WindowsOverlap(procs[p], procs[q]))
        => ~ (Blocks(bookings[procs[p].booking_id]) /\ Blocks(bookings[procs[q].booking_id]))

\* C3: expiry agreement: a pending reservation reports "expired" exactly
\* when it does not block, at every clock value.
ExpiryAgreement ==
    \A i \in BookingIds :
        bookings[i].status = "pending"
        => ((determine_booking_status(bookings[i]) = "expired") <=> ~ IsBlocking(bookings[i]))

\* C4: terminal stored status: a stored status of cancelled or released is
\* never changed by any step.
TerminalStoredStatus ==
    [][\A i \in BookingIds :
          bookings[i].status \in Terminal => bookings'[i].status = bookings[i].status]_vars

\* C5: confirm_booking and release_booking on a reservation whose stored
\* status is cancelled or released return the "not found or not pending"
\* error and leave the stored statuses unchanged, at every clock value.
TerminalConfirmReleaseFail ==
    \A id \in BookingIds :
        bookings[id].status \in Terminal
        => /\ confirm_booking(id) = Outcome(ReturnError(ErrConfirm), bookings, users)
           /\ release_booking(id) = Outcome(ReturnError(ErrConfirm), bookings, users)

\* A cancelled and a released reservation are stored and the clock has moved
\* on since they were created.
TerminalConfirmReleaseFailWitness ==
    /\ Len(bookings) = 2
    /\ {bookings[1].status, bookings[2].status} = Terminal
    /\ now > bookings[2].created_at
    /\ TerminalConfirmReleaseFail

\* C6: confirm_booking(id) succeeds exactly when the reservation exists, is
\* stored as pending and was created after now - hold_duration; on success
\* only that stored status changes, to confirmed; otherwise it returns an
\* error and the store is unchanged.
ConfirmContract ==
    \A id \in IdArgs :
        LET ok == id \in BookingIds /\ Live(bookings[id])
            out == confirm_booking(id)
        IN  /\ (out.ret.key = "success") <=> ok
            /\ ok => out.bookings = [bookings EXCEPT ![id].status = "confirmed"]
            /\ ~ ok => (out.ret.key = "error" /\ out.bookings = bookings)
            /\ out.users = users

\* Two reservations are stored: a pending one whose hold has lapsed, which
\* confirm_booking refuses, and a pending one whose hold is live, which it
\* confirms.
ConfirmContractWitness ==
    /\ Len(bookings) = 2
    /\ bookings[1].status = "pending" /\ bookings[1].created_at < now - HoldDuration
    /\ confirm_booking(1).ret = ReturnError(ErrConfirm)
    /\ Live(bookings[2])
    /\ confirm_booking(2).ret = ReturnSuccess(OkConfirmed)

\* C7: a stored status of confirmed is only ever reached from a stored
\* status of pending whose hold is unexpired at that moment.
ConfirmedOnlyFromLivePending ==
    [][\A i \in 1..Len(bookings') :
          bookings'[i].status = "confirmed"
          => /\ i \in BookingIds
             /\ (bookings[i].status = "confirmed" \/ Live(bookings[i]))]_vars

\* C8: release_booking(id) succeeds exactly when the reservation exists and
\* is stored as pending, expired or not; on success only that stored status
\* changes, to released; otherwise it returns the "not found or not pending"
\* error and changes nothing.
ReleaseContract ==
    \A id \in IdArgs :
        LET ok == id \in BookingIds /\ bookings[id].status = "pending"
            out == release_booking(id)
        IN  /\ (out.ret.key = "success") <=> ok
            /\ ok => out.bookings = [bookings EXCEPT ![id].status = "released"]
            /\ ~ ok => out = Outcome(ReturnError(ErrConfirm), bookings, users)
            /\ out.users = users

\* A pending reservation whose hold has lapsed and a confirmed one are
\* stored: release_booking releases the first and refuses the second.
ReleaseContractWitness ==
    /\ Len(bookings) = 2
    /\ bookings[1].status = "pending" /\ bookings[1].created_at < now - HoldDuration
    /\ release_booking(1).ret = ReturnSuccess(OkReleased)
    /\ bookings[2].status = "confirmed"
    /\ release_booking(2).ret = ReturnError(ErrConfirm)

\* C9: a stored status becomes released only from a stored status of pending.
ReleasedOnlyFromPending ==
    [][\A i \in BookingIds :
          (bookings'[i].status = "released" /\ bookings[i].status # "released")
          => bookings[i].status = "pending"]_vars

\* What C10 says of one call of cancel_booking.
CancelOutcome ==
    \A id \in IdArgs :
        LET refused == id \notin BookingIds \/ bookings[id].end_date < now
            out == cancel_booking(id)
        IN  /\ refused => (out.ret.key = "error" /\ out.bookings = bookings)
            /\ ~ refused =>
                 /\ out.ret.key = "success"
                 /\ out.bookings = [bookings EXCEPT ![id].status = "cancelled"]
            /\ out.users = users

\* C10: cancel_booking(id) returns an error and changes nothing when the
\* reservation is absent or its end_time is before now; in every other case
\* it sets that stored status to cancelled whatever it was.  No step changes
\* a stored status to cancelled at a time later than the reservation's
\* end_time.
CancelContract ==
    /\ []CancelOutcome
    /\ [][\A i \in BookingIds :
            (bookings'[i].status = "cancelled" /\ bookings[i].status # "cancelled")
            => now' <= bookings'[i].end_date]_vars

\* A confirmed reservation whose end_time has passed, which cancel_booking
\* refuses, and a released one whose end_time has not, which it cancels.
CancelContractWitness ==
    /\ Len(bookings) = 2
    /\ bookings[1].status = "confirmed" /\ bookings[1].end_date < now
    /\ cancel_booking(1).ret = ReturnError(ErrPastEnd)
    /\ bookings[2].status = "released" /\ bookings[2].end_date >= now
    /\ cancel_booking(2).ret = ReturnSuccess(OkCancelled)

\* The instants, guests and windows the claims about single calls range over.
Instants == 0..(MaxTime + 1)

Guests == {<<"ann", "ann@x">>, <<"bob", "bob@x">>}

\* A blocking reservation of the room overlaps [s, e).
Blocked(room_id, s, e) ==
    \E i \in BookingIds :
        /\ bookings[i].room_id = room_id
        /\ Blocks(bookings[i])
        /\ bookings[i].start_date < e /\ s < bookings[i].end_date

\* C11: create_booking with all arguments present, a window with
\* now < start < end and an existing room succeeds exactly when no blocking
\* reservation of that room overlaps the window; on success exactly one
\* reservation is added, with that room and window and stored status pending;
\* on 'Room is not available' no reservation is added.  (status is left to
\* its default, as in every call the API layer makes.)
CreateContract ==
    \A room_id \in Rooms, guest \in Guests, s \in Instants, e \in Instants :
        (now < s /\ s < e)
        => LET out == create_booking(room_id, guest[1], guest[2],
                                     IsoDate(s), IsoDate(e), "pending")
               added == out.bookings[Len(bookings) + 1]
           IN  /\ (out.ret.key = "success") <=> ~ Blocked(room_id, s, e)
               /\ out.ret.key = "success" =>
                    /\ Len(out.bookings) = Len(bookings) + 1
                    /\ SubSeq(out.bookings, 1, Len(bookings)) = bookings
                    /\ added.room_id = room_id
                    /\ added.start_date = s /\ added.end_date = e
                    /\ added.status = "pending"
               /\ out.ret.key = "error" =>
                    /\ out.ret = ReturnError(ErrUnavailable)
                    /\ out.bookings = bookings

\* A live hold is stored; a second create for the identical window on the
\* same room is refused and a create for the other room succeeds.
CreateContractWitness ==
    /\ Len(bookings) = 1
    /\ Live(bookings[1])
    /\ now < bookings[1].start_date
    /\ create_booking(bookings[1].room_id, "bob", "bob@x",
                      IsoDate(bookings[1].start_date), IsoDate(bookings[1].end_date),
                      "pending").ret = ReturnError(ErrUnavailable)
    /\ create_booking(3 - bookings[1].room_id, "bob", "bob@x",
                      IsoDate(bookings[1].start_date), IsoDate(bookings[1].end_date),
                      "pending").ret = ReturnSuccess(OkCreated)

\* C12: _check_room_available(room, start, end) is true exactly when no
\* reservation of that room with start_time < end and end_time > start is
\* blocking (confirmed, or pending and created after now - hold_duration):
\* cancelled, released and expired-pending reservations never make a room
\* unavailable, and a confirmed reservation keeps its own window unavailable
\* at every clock value.
AvailabilityContract ==
    /\ \A room_id \in Rooms, s \in Instants, e \in Instants :
          _check_room_available(room_id, s, e) <=> ~ Blocked(room_id, s, e)
    /\ \A room_id \in Rooms :
          (\A i \in BookingIds :
              bookings[i].room_id = room_id
              => \/ bookings[i].status \in Terminal
                 \/ /\ bookings[i].status = "pending"
                    /\ bookings[i].created_at <= now - HoldDuration)
          => \A s \in Instants, e \in Instants : _check_room_available(room_id, s, e)
    /\ \A i \in BookingIds :
          bookings[i].status = "confirmed"
          => ~ _check_room_available(bookings[i].room_id, bookings[i].start_date,
                                     bookings[i].end_date)

\* One room holds only a pending reservation whose hold has lapsed and is
\* available for that window; the other holds a confirmed reservation created
\* more than hold_duration ago, whose window is unavailable.
AvailabilityContractWitness ==
    /\ Len(bookings) = 2
    /\ bookings[1].room_id # bookings[2].room_id
    /\ bookings[1].status = "pending" /\ bookings[1].created_at <= now - HoldDuration
    /\ _check_room_available(bookings[1].room_id, bookings[1].start_date,
                             bookings[1].end_date)
    /\ bookings[2].status = "confirmed" /\ bookings[2].created_at < now - HoldDuration
    /\ ~ _check_room_available(bookings[2].room_id, bookings[2].start_date,
                               bookings[2].end_date)

\* C13: get_available_rooms_by_date_range and _check_room_available use the
\* same predicate: in every state, for every room r and window with
\* start < end, r is in get_available_rooms_by_date_range(start, end) exactly
\* when _check_room_available(r, start, end) is true.
AvailabilityQueriesAgree ==
    \A r \in Rooms, s \in Instants, e \in Instants :
        s < e
        => ((r \in get_available_rooms_by_date_range(s, e))
              <=> _check_room_available(r, s, e))

\* C14: _validate_booking_dates accepts a window exactly when
\* now < start < end; it returns an error whenever start >= end, start <= now
\* or end <= now, and create_booking and update_booking then change nothing.
ValidateStrictFuture ==
    \A s \in Instants, e \in Instants :
        LET accepted == _validate_booking_dates(IsoDate(s), IsoDate(e)).error = ""
        IN  /\ accepted <=> (now < s /\ s < e)
            /\ ~ (now < s /\ s < e) =>
                 /\ \A room_id \in Rooms, guest \in Guests :
                       LET out == create_booking(room_id, guest[1], guest[2],
                                                 IsoDate(s), IsoDate(e), "pending")
                       IN  out.ret.key = "error" /\ out.bookings = bookings
                 /\ \A id \in BookingIds, status \in StatusArgs :
                       LET out == update_booking(id, IsoDate(s), IsoDate(e), status)
                       IN  out.ret.key = "error" /\ out.bookings = bookings

StoredStatuses == {"pending", "confirmed", "cancelled", "released"}

\* C15: in every reachable state the stored status of every reservation is
\* one of pending, confirmed, cancelled, released, whatever label
\* update_booking is called with, and retrieve_booking on a pending
\* reservation whose hold has lapsed reports expired while the stored status
\* is pending.
ExpiredNeverStored ==
    /\ \A id \in BookingIds : bookings[id].status \in StoredStatuses
    /\ \A id \in BookingIds :
          (bookings[id].status = "pending" /\ ~ Live(bookings[id]))
          => retrieve_booking(id).status = "expired"

\* The rows a hold can be stored as.
HoldRows ==
    {[room_id |-> room_id, user_id |-> 1, start_date |-> w[1], end_date |-> w[2],
      status |-> "pending", created_at |-> t] :
        room_id \in Rooms, w \in {x \in WindowArgs : x[1] < x[2]}, t \in 0..MaxTime}

\* The hold stored as `row` under id has stopped blocking: confirm_booking
\* refuses it and, unless another blocking reservation overlaps its window,
\* create_booking for its room and window succeeds.
RoomFreed(id, row) ==
    /\ ~ Blocks(row)
    /\ confirm_booking(id).ret = ReturnError(ErrConfirm)
    /\ \/ Blocked(row.room_id, row.start_date, row.end_date)
       \/ create_booking(row.room_id, "ann", "ann@x", IsoDate(row.start_date),
                         IsoDate(row.end_date), "pending").ret = ReturnSuccess(OkCreated)

\* C16 as stated: a live hold that is never confirmed or updated stops
\* blocking once the clock has advanced past created_at + hold_duration:
\* unless its row is released first, eventually confirm_booking
\* on it fails and a create_booking for the same room and window succeeds.
AbandonedHoldFreesRoom ==
    \A id \in 1..MaxBookings, row \in HoldRows :
        (id \in BookingIds /\ bookings[id] = row /\ Live(row))
        ~> ((id \in BookingIds /\ bookings[id] # row) \/ RoomFreed(id, row))

\* A hold that has lapsed stays lapsed while its row is left alone.
LapsedStaysLapsed ==
    \A id \in BookingIds :
        (bookings[id].status = "pending" /\ ~ Live(bookings[id])
           /\ bookings'[id] = bookings[id])
        => /\ ~ Blocks(bookings[id])'
           /\ confirm_booking(id)'.ret = ReturnError(ErrConfirm)

\* C16 as amended: the same, for a hold whose window starts no earlier than
\* created_at + hold_duration, so that the window still passes date
\* validation when the hold lapses.
AbandonedHoldFreesFutureWindow ==
    /\ \A id \in 1..MaxBookings, row \in HoldRows :
          (id \in BookingIds /\ bookings[id] = row /\ Live(row)
             /\ row.start_date >= row.created_at + HoldDuration)
          ~> ((id \in BookingIds /\ bookings[id] # row) \/ RoomFreed(id, row))
    /\ [][LapsedStaysLapsed]_vars

\* A hold was left alone until it lapsed and its window is still open:
\* confirm_booking refuses it and create_booking for its room and window
\* succeeds.
AbandonedHoldFreesFutureWindowWitness ==
    /\ Len(bookings) = 1
    /\ bookings[1].status = "pending"
    /\ now >= bookings[1].created_at + HoldDuration
    /\ bookings[1].start_date >= now
    /\ RoomFreed(1, bookings[1])
    /\ ~ Blocked(bookings[1].room_id, bookings[1].start_date, bookings[1].end_date)

\* C17: in every reachable state every stored reservation has start_time
\* strictly before end_time, after any sequence of create_booking and
\* update_booking calls, which are also offered windows with start = end.
WindowsOrdered ==
    \A id \in BookingIds : bookings[id].start_date < bookings[id].end_date

\* Two reservations are stored; update_booking has a window to refuse for
\* its order and one to store.
WindowsOrderedWitness ==
    /\ Len(bookings) = 2
    /\ bookings[1].start_date # bookings[2].start_date
    /\ update_booking(1, IsoDate(MaxTime), IsoDate(MaxTime), "cancelled").ret
         = ReturnError(ErrStartBeforeEnd)
    /\ update_booking(1, IsoDate(MaxTime + 1), IsoDate(MaxTime), "cancelled").ret
         = ReturnError(ErrStartBeforeEnd)
    /\ update_booking(1, IsoDate(MaxTime), IsoDate(MaxTime + 1), "cancelled").ret
         = ReturnSuccess(OkUpdated)

\* C18: retrieve_user is find-or-create by email: there is at most one user
\* record per email; a call leaves a record with the email in the table and
\* returns it; a call with an email already present returns the existing user
\* without changing its stored username and without adding a record, so
\* repeating a call changes nothing.
UserFindOrCreate ==
    /\ \A i \in 1..Len(users), j \in 1..Len(users) :
          users[i].email = users[j].email => i = j
    /\ \A guest \in GuestArgs :
          LET after == UsersAfterRetrieve(guest[1], guest[2])
              user_id == retrieve_user(guest[1], guest[2])
              present == \E i \in 1..Len(users) : users[i].email = guest[2]
          IN  /\ user_id \in 1..Len(after)
              /\ after[user_id].email = guest[2]
              /\ present => (after = users /\ user_id \in 1..Len(users))
              /\ ~ present => after = Append(users, [username |-> guest[1],
                                                     email |-> guest[2]])

\* ann@x is stored under the name ann and bob@x after it; retrieve_user for
\* ann@x under the name anna returns the first record and changes nothing.
UserFindOrCreateWitness ==
    /\ Len(users) = 2
    /\ users[1] = [username |-> "ann", email |-> "ann@x"]
    /\ retrieve_user("anna", "ann@x") = 1
    /\ UsersAfterRetrieve("anna", "ann@x") = users
    /\ Len(bookings) > 0

\* C19: update_booking's availability re-check excludes no reservation: when
\* the reservation being updated is itself blocking and the new window (one
\* that passes date validation, now < start < end) overlaps its own current
\* window, update_booking with new status confirmed or pending returns 'Room
\* is not available' and leaves the store unchanged, whether or not another
\* reservation of the room overlaps.
UpdateBlockedBySelf ==
    \A id \in BookingIds :
        Blocks(bookings[id])
        => \A s \in Instants, e \in Instants, status \in {"confirmed", "pending"} :
              (now < s /\ s < e /\ bookings[id].start_date < e /\ s < bookings[id].end_date)
              => update_booking(id, IsoDate(s), IsoDate(e), status)
                   = Outcome(ReturnError(ErrUnavailable), bookings, users)

\* The only stored reservation is blocking and its window is still ahead:
\* update_booking to the same window with status confirmed is refused as
\* unavailable.
UpdateBlockedBySelfWitness ==
    /\ Len(bookings) = 1
    /\ Blocks(bookings[1])
    /\ now < bookings[1].start_date
    /\ update_booking(1, IsoDate(bookings[1].start_date), IsoDate(bookings[1].end_date),
                      "confirmed").ret = ReturnError(ErrUnavailable)

\* Reservation id is the only blocking reservation of its room.
OnlyBlockerOfRoom(id) ==
    /\ Blocks(bookings[id])
    /\ \A j \in BookingIds \ {id} :
          bookings[j].room_id = bookings[id].room_id => ~ Blocks(bookings[j])

\* C20: the overlap test of _check_room_available is symmetric and
\* half-open: a blocking reservation on window A refuses a request for
\* window B exactly when a blocking reservation on B refuses a request for A,
\* and a request that starts where a blocking reservation ends is not
\* refused.
OverlapSymmetricHalfOpen ==
    /\ \A i \in BookingIds, j \in BookingIds :
          (OnlyBlockerOfRoom(i) /\ OnlyBlockerOfRoom(j))
          => (_check_room_available(bookings[i].room_id, bookings[j].start_date,
                                    bookings[j].end_date)
                <=> _check_room_available(bookings[j].room_id, bookings[i].start_date,
                                          bookings[i].end_date))
    /\ \A i \in BookingIds :
          OnlyBlockerOfRoom(i)
          => \A e \in Instants :
                bookings[i].end_date < e
                => _check_room_available(bookings[i].room_id, bookings[i].end_date, e)

\* Two blocking reservations, each alone in its room, on back-to-back
\* windows: neither refuses a request for the other's window.
OverlapSymmetricHalfOpenWitness ==
    /\ Len(bookings) = 2
    /\ bookings[1].room_id # bookings[2].room_id
    /\ Blocks(bookings[1]) /\ Blocks(bookings[2])
    /\ bookings[1].end_date = bookings[2].start_date
    /\ _check_room_available(bookings[1].room_id, bookings[2].start_date,
                             bookings[2].end_date)
    /\ _check_room_available(bookings[2].room_id, bookings[1].start_date,
                             bookings[1].end_date)

\* The arguments create_booking is tried with: a missing room_id (0), the
\* catalogue and a room outside it; guests with a missing name or email;
\* missing, malformed and well-formed dates.
CreateRoomArgs == {0} \cup RoomIdArgs

CreateGuestArgs == GuestArgs \cup {<<"", "ann@x">>, <<"bob", "">>}

CreateDateArgs ==
    {<<NoneDate, IsoDate(MaxTime)>>, <<IsoDate(MaxTime), NoneDate>>,
     <<BadDate, IsoDate(MaxTime + 1)>>, <<IsoDate(MaxTime), BadDate>>}
    \cup {<<IsoDate(w[1]), IsoDate(w[2])>> : w \in WindowArgs}

\* C21: create_booking applies its checks in the order arguments present,
\* date validation, room exists, resolve/create user, availability: a create
\* that fails on missing arguments, invalid dates or a nonexistent room
\* returns that error, in that order of precedence, and adds no user record;
\* a create that fails with 'Room is not available' adds no reservation but
\* has added the user record when the email was not stored before.
CreateCheckOrder ==
    \A room_id \in CreateRoomArgs, guest \in CreateGuestArgs, dates \in CreateDateArgs :
        LET out == create_booking(room_id, guest[1], guest[2], dates[1], dates[2], "pending")
            unchanged == out.bookings = bookings /\ out.users = users
            missing == \/ room_id = 0 \/ guest[1] = "" \/ guest[2] = ""
                       \/ dates[1] = NoneDate \/ dates[2] = NoneDate
            wellformed == dates[1].kind = "iso" /\ dates[2].kind = "iso"
            invalid == \/ ~ wellformed
                       \/ dates[1].t >= dates[2].t
                       \/ dates[1].t < now
            valid == wellformed /\ now < dates[1].t /\ dates[1].t < dates[2].t
            stored == \E i \in 1..Len(users) : users[i].email = guest[2]
        IN  /\ missing => (out.ret = ReturnError(ErrArgsRequired) /\ unchanged)
            /\ (~ missing /\ invalid) =>
                 /\ out.ret \in {ReturnError(ErrDateFormat), ReturnError(ErrStartBeforeEnd),
                                 ReturnError(ErrFuture)}
                 /\ unchanged
            /\ (~ missing /\ valid /\ room_id \notin Rooms) =>
                 (out.ret = ReturnError(ErrNoRoom) /\ unchanged)
            /\ (~ missing /\ valid /\ room_id \in Rooms
                  /\ Blocked(room_id, dates[1].t, dates[2].t)) =>
                 /\ out.ret = ReturnError(ErrUnavailable)
                 /\ out.bookings = bookings
                 /\ stored => out.users = users
                 /\ ~ stored => out.users = Append(users, [username |-> guest[1],
                                                           email |-> guest[2]])

\* Only ann@x is stored and a live hold blocks a window that is still ahead:
\* a create for bob@x on that room and window is refused as unavailable and
\* leaves bob's record behind; the same create for the room outside the
\* catalogue, or with a malformed date, leaves no record.
CreateCheckOrderWitness ==
    /\ Len(bookings) = 1 /\ Len(users) = 1
    /\ Live(bookings[1]) /\ now < bookings[1].start_date
    /\ LET b == bookings[1]
           out == create_booking(b.room_id, "bob", "bob@x", IsoDate(b.start_date),
                                 IsoDate(b.end_date), "pending")
       IN  /\ out.ret = ReturnError(ErrUnavailable)
           /\ out.bookings = bookings
           /\ out.users = Append(users, [username |-> "bob", email |-> "bob@x"])
           /\ create_booking(3, "bob", "bob@x", IsoDate(b.start_date),
                             IsoDate(b.end_date), "pending")
                = Outcome(ReturnError(ErrNoRoom), bookings, users)
           /\ create_booking(b.room_id, "bob", "bob@x", BadDate,
                             IsoDate(b.end_date), "pending")
                = Outcome(ReturnError(ErrDateFormat), bookings, users)

\* C22: confirm_booking racing with hold expiry and create_booking produces
\* no double booking: once a confirm_booking request has returned success,
\* the reservation it confirmed is not stored as confirmed together with
\* another blocking reservation of the same room for an overlapping window.
ConfirmRaceExclusive ==
    \A p \in Procs :
        (/\ procs[p].pc = "done"
         /\ procs[p].ret = ReturnSuccess(OkConfirmed)
         /\ bookings[procs[p].booking_id].status = "confirmed")
        => \A j \in BookingIds \ {procs[p].booking_id} :
               ~ (/\ bookings[j].room_id = bookings[procs[p].booking_id].room_id
                  /\ WindowsOverlap(bookings[j], bookings[procs[p].booking_id])
                  /\ Blocks(bookings[j]))

\* The calls the store is compared across: creates with a missing room_id,
\* name or date, with a malformed date, and for every room and window; updates
\* with a malformed date and for every window.
CreateFrameArgs ==
    {<<0, "ann", "ann@x", IsoDate(MaxTime), IsoDate(MaxTime + 1)>>,
     <<1, "", "ann@x", IsoDate(MaxTime), IsoDate(MaxTime + 1)>>,
     <<1, "ann", "ann@x", NoneDate, IsoDate(MaxTime + 1)>>,
     <<1, "ann", "ann@x", BadDate, IsoDate(MaxTime + 1)>>,
     <<1, "ann", "ann@x", IsoDate(MaxTime), BadDate>>}
    \cup {<<r, "ann", "ann@x", IsoDate(w[1]), IsoDate(w[2])>> :
             r \in RoomIdArgs, w \in WindowArgs}

UpdateFrameDates ==
    {<<BadDate, IsoDate(MaxTime + 1)>>}
    \cup {<<IsoDate(w[1]), IsoDate(w[2])>> : w \in WindowArgs}

\* C23: every call of create_booking, update_booking, confirm_booking,
\* cancel_booking or release_booking that returns an error leaves the
\* reservation store exactly as it was, and the read operations
\* retrieve_booking and get_available_rooms_by_date_range never change it.
ErrorsAndReadsKeepStore ==
    /\ \A a \in CreateFrameArgs :
           LET out == create_booking(a[1], a[2], a[3], a[4], a[5], "pending")
           IN  out.ret.key = "error" => out.bookings = bookings
    /\ \A booking_id \in IdArgs, dates \in UpdateFrameDates, status \in StatusArgs :
           LET out == update_booking(booking_id, dates[1], dates[2], status)
           IN  out.ret.key = "error" => out.bookings = bookings
    /\ \A booking_id \in IdArgs :
           /\ LET out == confirm_booking(booking_id)
              IN  out.ret.key = "error" => out.bookings = bookings
           /\ LET out == cancel_booking(booking_id)
              IN  out.ret.key = "error" => out.bookings = bookings
           /\ LET out == release_booking(booking_id)
              IN  out.ret.key = "error" => out.bookings = bookings
           /\ retrieve_booking_call(booking_id).bookings = bookings
    /\ \A w \in WindowArgs : get_available_rooms_call(w[1], w[2]).bookings = bookings

\* A confirmed reservation whose window has passed and a live hold on a
\* window that has not begun are stored: confirm, cancel and release of the first,
\* a create on the hold's room and window, an update of the hold onto its own
\* window and an update of an unknown id all return errors.
ErrorsAndReadsKeepStoreWitness ==
    /\ Len(bookings) = 2
    /\ bookings[1].status = "confirmed" /\ bookings[1].end_date < now
    /\ Live(bookings[2]) /\ now <= bookings[2].start_date
    /\ confirm_booking(1).ret = ReturnError(ErrConfirm)
    /\ cancel_booking(1).ret = ReturnError(ErrPastEnd)
    /\ release_booking(1).ret.key = "error"
    /\ create_booking(bookings[2].room_id, "ann", "ann@x", IsoDate(bookings[2].start_date),
                      IsoDate(bookings[2].end_date), "pending").ret
         = ReturnError(ErrUnavailable)
    /\ update_booking(2, IsoDate(bookings[2].start_date), IsoDate(bookings[2].end_date),
                      "pending").ret = ReturnError(ErrUnavailable)
    /\ update_booking(3, IsoDate(MaxTime), IsoDate(MaxTime + 1), "pending").ret
         = ReturnError(ErrNotFound)
    /\ retrieve_booking_call(2).ret.status = "pending"

====
